---------------------------- MODULE Spec2Model ----------------------------
(***************************************************************************)
(* A model of the time-speaker screen (src/src/App.tsx; the second copy    *)
(* src/unnamed/part_000 has the same logic): the App component's three     *)
(* state fields, its two mount effects, the speakTime handler, and the     *)
(* platform objects it talks to (the clock, the voice inventory and the    *)
(* shared speech engine with its asynchronous notifications).              *)
(*                                                                         *)
(* Strings that the code inspects (locale tags) are sequences of one-      *)
(* character strings, so that toLowerCase and includes are computed.       *)
(* The Bengali glyphs of the phrase are written as ASCII tokens: "bn0" ..  *)
(* "bn9" stand for the digits U+09E6 .. U+09EF, "ekhon somoy", "ta" and    *)
(* "minit" for the three Bengali words of the template.                    *)
(*                                                                         *)
(* The page runs its handlers one at a time and to completion, so each     *)
(* handler is one action, the state update it makes included.  The engine  *)
(* fires start, end and error notifications asynchronously: those of one   *)
(* utterance reach the page in the order fired, those of different         *)
(* utterances in any order, since the code ties no handler to the          *)
(* utterance that is current.  cancel() removes every utterance from the   *)
(* engine; the one handed to the synthesizer gets an error notification    *)
(* ('interrupted'), those waiting in the queue are dropped with none, as   *)
(* Chrome does.  The platform dispatches voiceschanged when its inventory  *)
(* changes and also with the inventory unchanged (when the engine          *)
(* initialises).  An utterance may end without ever reporting a start.     *)
(* After teardown the component's state setters change nothing.            *)
(***************************************************************************)
EXTENDS Naturals, Sequences, FiniteSets

VARIABLES
    phase,            \* "rendered" (first render, effects not yet run), "mounted", "unmounted"
    time,             \* useState(new Date()): [hours, minutes]
    isSpeaking,       \* useState(false)
    hasBnVoice,       \* useState(true)
    timer,            \* TRUE while the setInterval timer is active
    onvoiceschanged,  \* window.speechSynthesis.onvoiceschanged: "undefined", "null" or "checkVoices"
    voices,           \* what window.speechSynthesis.getVoices() returns now
    voicesSignal,     \* "none", "queued" (a voiceschanged event waits), "silent" (changed, no event exists)
    utts,             \* the engine's view of every utterance handed to it, in order
    calls,            \* the calls made on window.speechSynthesis, in order
    utterance,        \* the SpeechSynthesisUtterance built last
    lastEvent         \* the handler of the App that ran last

vars == <<phase, time, isSpeaking, hasBnVoice, timer, onvoiceschanged, voices,
          voicesSignal, utts, calls, utterance, lastEvent>>

-----------------------------------------------------------------------------
(* Bounds of the model *)

\* speak requests accepted in one run of the lifecycle specification
MaxUtterances == 2
\* descriptors in a voice inventory
MaxVoices == 2
\* speak requests accepted in one run of the phrase and voice specifications
MaxContentUtterances == 1

-----------------------------------------------------------------------------
(* Strings *)

UpperAlphabet == <<"A","B","C","D","E","F","G","H","I","J","K","L","M",
                   "N","O","P","Q","R","S","T","U","V","W","X","Y","Z">>
LowerAlphabet == <<"a","b","c","d","e","f","g","h","i","j","k","l","m",
                   "n","o","p","q","r","s","t","u","v","w","x","y","z">>

\* String.prototype.toLowerCase, one character
toLowerCaseChar(c) ==
    IF \E i \in DOMAIN UpperAlphabet : UpperAlphabet[i] = c
    THEN LowerAlphabet[CHOOSE i \in DOMAIN UpperAlphabet : UpperAlphabet[i] = c]
    ELSE c

\* String.prototype.toLowerCase
toLowerCase(s) == [i \in DOMAIN s |-> toLowerCaseChar(s[i])]

\* String.prototype.includes
includes(s, sub) ==
    \E i \in 0..(Len(s) - Len(sub)) : SubSeq(s, i + 1, i + Len(sub)) = sub

\* the two tokens of the code, 'bn' and 'bengali'
TokenBn == <<"b","n">>
TokenBengali == <<"b","e","n","g","a","l","i">>
\* the fallback tag of the code, 'bn-BD'
TagBnBD == <<"b","n","-","B","D">>

-----------------------------------------------------------------------------
(* The voice inventory of the platform *)

NullVoice == [handle |-> "null", lang |-> <<>>]

\* The descriptors a platform may offer: a Bengali voice, an English one and
\* one whose tag spells the language name, with a capital.
VoiceBnBD == [handle |-> "v1", lang |-> TagBnBD]
VoiceEnUS == [handle |-> "v2", lang |-> <<"e","n","-","U","S">>]
VoiceBengali == [handle |-> "v3", lang |-> <<"B","e","n","g","a","l","i">>]

AllVoices == {VoiceBnBD, VoiceEnUS, VoiceBengali}
\* the two inventories of the lifecycle specification: no voice, one Bengali voice
FewInventories == {<<>>, <<VoiceBnBD>>}

\* the inventories over a set of descriptors: no descriptor twice, at most MaxVoices
Inventories(V) ==
    {s \in UNION {[1..n -> V] : n \in 0..MaxVoices} :
        \A i, j \in DOMAIN s : i # j => s[i] # s[j]}

-----------------------------------------------------------------------------
(* checkVoices and the voice search of speakTime *)

\* a slip: the tag is searched as it is written, toLowerCase forgotten
isBengaliVoice_CaseSensitive(v) ==
    \/ includes(v.lang, TokenBn)
    \/ includes(v.lang, TokenBengali)

\* the predicate given to voices.some and voices.find
isBengaliVoice(v) ==
    \/ includes(toLowerCase(v.lang), TokenBn)
    \/ includes(toLowerCase(v.lang), TokenBengali)

\* checkVoices: const found = voices.some(...)
found(vs) == \E i \in DOMAIN vs : isBengaliVoice(vs[i])

\* a slip: the last matching descriptor instead of the first
bnVoice_LastMatch(vs) ==
    IF \E i \in DOMAIN vs :
          includes(toLowerCase(vs[i].lang), TokenBn) \/ includes(toLowerCase(vs[i].lang), TokenBengali)
    THEN vs[CHOOSE i \in DOMAIN vs :
                /\ includes(toLowerCase(vs[i].lang), TokenBn) \/ includes(toLowerCase(vs[i].lang), TokenBengali)
                /\ \A j \in DOMAIN vs :
                      (includes(toLowerCase(vs[j].lang), TokenBn) \/ includes(toLowerCase(vs[j].lang), TokenBengali))
                          => j <= i]
    ELSE NullVoice

\* speakTime: const bnVoice = voices.find(...); undefined is NullVoice
bnVoice(vs) ==
    IF \E i \in DOMAIN vs : isBengaliVoice(vs[i])
    THEN vs[CHOOSE i \in DOMAIN vs :
                /\ isBengaliVoice(vs[i])
                /\ \A j \in DOMAIN vs : isBengaliVoice(vs[j]) => i <= j]
    ELSE NullVoice

-----------------------------------------------------------------------------
(* The phrase *)

BnDigit == <<"bn0","bn1","bn2","bn3","bn4","bn5","bn6","bn7","bn8","bn9">>

\* a slip: the "|| 12" forgotten
hour12_NoFallback(hours) == hours % 12

\* const hour12 = hours % 12 || 12
hour12(hours) == IF hours % 12 # 0 THEN hours % 12 ELSE 12

\* num.toLocaleString('bn-BD') for the numbers the clock gives (below 1000, so
\* no grouping separator): the decimal digits, each as its Bengali glyph
RECURSIVE toBengaliDigits(_)
toBengaliDigits(num) ==
    IF num < 10 THEN <<BnDigit[num + 1]>>
    ELSE Append(toBengaliDigits(num \div 10), BnDigit[(num % 10) + 1])

\* the template string of speakTime
timeText(hours, minutes) ==
    <<"ekhon somoy", " ">> \o toBengaliDigits(hour12(hours)) \o <<" ", "ta", " ">>
        \o (IF minutes > 0 THEN toBengaliDigits(minutes) \o <<" ", "minit">> ELSE <<>>)

\* utterance.rate = 0.85, in hundredths
RateHundredths == 85
\* utterance.pitch = 1
Pitch == 1

NoUtterance == [text |-> <<>>, voice |-> NullVoice, lang |-> <<>>, rate |-> 0, pitch |-> 0]

\* the utterance speakTime builds from the time and the inventory it reads
buildUtterance(t, vs) ==
    [text  |-> timeText(t.hours, t.minutes),
     voice |-> bnVoice(vs),
     lang  |-> IF bnVoice(vs) # NullVoice THEN bnVoice(vs).lang ELSE TagBnBD,
     rate  |-> RateHundredths,
     pitch |-> Pitch]

-----------------------------------------------------------------------------
(* The clock *)

Hours == 0..23
Minutes == {0, 30}
AllInstants == [hours : Hours, minutes : Minutes]
Midnight == [hours |-> 0, minutes |-> 0]
FewInstants == {Midnight, [hours |-> 13, minutes |-> 30]}

\* the reading half an hour after t
HalfHourLater(t) ==
    IF t.minutes = 0 THEN [t EXCEPT !.minutes = 30]
    ELSE [hours |-> (t.hours + 1) % 24, minutes |-> 0]

-----------------------------------------------------------------------------
(* The speech engine (window.speechSynthesis): one record per utterance.     *)
(* st is its place in the engine: "queued" (waiting in the page's queue      *)
(* behind another utterance), "pending" (handed to the synthesizer, not yet  *)
(* begun), "speaking", "done" (the synthesizer has fired its end or error,   *)
(* which the page has not handled yet, so it still heads the queue) and      *)
(* "gone" (out of the queue).  inbox holds the notifications fired for it    *)
(* and not yet handled, got those handled.                                   *)

NewUtterance == [st |-> "pending", inbox |-> <<>>, got |-> <<>>]

\* the utterances the engine holds and has not finished: waiting, handed over or spoken
Active(q) == {u \in DOMAIN q : q[u].st \in {"queued", "pending", "speaking"}}

\* the utterances in the page's queue
InQueue(q) == {u \in DOMAIN q : q[u].st # "gone"}

\* speechSynthesis.cancel(): every utterance leaves the queue; the one the
\* synthesizer holds gets an error notification, those waiting behind it (or
\* behind one whose end is being handled) get none
EngineCancel(q) ==
    [u \in DOMAIN q |->
        IF q[u].st \in {"pending", "speaking"}
        THEN [q[u] EXCEPT !.st = "gone", !.inbox = Append(@, "error")]
        ELSE [q[u] EXCEPT !.st = "gone"]]

\* speechSynthesis.speak(utterance): the utterance joins the queue, and goes to
\* the synthesizer at once when the queue was empty
EngineSpeak(q) ==
    Append(q, IF InQueue(q) = {} THEN NewUtterance
              ELSE [NewUtterance EXCEPT !.st = "queued"])

\* the page has handled the end or error of the utterance that headed its
\* queue: the utterance leaves the queue and the next one goes to the synthesizer
HandOver(q, u) ==
    IF q[u].st # "done" THEN q
    ELSE LET r == [q EXCEPT ![u].st = "gone"]
         IN IF InQueue(r) = {} THEN r
            ELSE [r EXCEPT ![CHOOSE w \in InQueue(r) : \A x \in InQueue(r) : w <= x].st = "pending"]

EngineCall(q, c) == IF c = "cancel" THEN EngineCancel(q) ELSE EngineSpeak(q)

RECURSIVE EngineCalls(_, _)
EngineCalls(q, cs) ==
    IF cs = <<>> THEN q ELSE EngineCalls(EngineCall(q, Head(cs)), Tail(cs))

-----------------------------------------------------------------------------
(* The App component *)

\* a slip: the guard forgotten
returnsEarly_Never == FALSE

\* speakTime: if (isSpeaking) return;
returnsEarly == isSpeaking

\* a slip: no cancel before the speak request
engineCalls_NoCancel == <<"speak">>
\* a slip: the cancel placed after the speak request
engineCalls_CancelAfter == <<"speak", "cancel">>

\* speakTime: the calls it makes on window.speechSynthesis once the utterance is built
engineCalls == <<"cancel", "speak">>

\* utterance.onstart = () => setIsSpeaking(true)
onstart(flag) == TRUE
\* utterance.onend = () => setIsSpeaking(false)
onend(flag) == FALSE
\* a slip: the error handler logs and leaves the flag alone
onerror_KeepsFlag(flag) == flag

\* utterance.onerror = (event) => { console.error(...); setIsSpeaking(false); }
onerror(flag) == FALSE

\* the cleanup the timer effect returns: clearInterval(timer)
clearInterval(t) == FALSE

\* what the voice effect leaves in window.speechSynthesis.onvoiceschanged at
\* teardown: it returns no cleanup, so the handler stays
voicesHandlerAfterTeardown(h) == h

Init(Instants, Invs) ==
    /\ phase = "rendered"
    /\ time \in Instants
    /\ isSpeaking = FALSE
    /\ hasBnVoice = TRUE
    /\ timer = FALSE
    /\ onvoiceschanged \in {"undefined", "null"}
    /\ voices \in Invs
    /\ voicesSignal = "none"
    /\ utts = <<>>
    /\ calls = <<>>
    /\ utterance = NoUtterance
    /\ lastEvent = "render"

\* the two effects run after the first render: the timer starts, checkVoices
\* runs once and is subscribed where the platform has onvoiceschanged
Mount ==
    /\ phase = "rendered"
    /\ phase' = "mounted"
    /\ timer' = TRUE
    /\ hasBnVoice' = found(voices)
    /\ onvoiceschanged' = IF onvoiceschanged # "undefined" THEN "checkVoices" ELSE onvoiceschanged
    /\ lastEvent' = "mount"
    /\ UNCHANGED <<time, isSpeaking, voices, voicesSignal, utts, calls, utterance>>

\* the interval callback: setTime(new Date()); Readings is what the clock may show
Tick(Readings) ==
    /\ timer
    /\ \E t \in Readings : time' = t
    /\ lastEvent' = "tick"
    /\ UNCHANGED <<phase, isSpeaking, hasBnVoice, timer, onvoiceschanged, voices,
                   voicesSignal, utts, calls, utterance>>

\* the platform publishes its inventory, changed or not (it does so with the
\* same inventory when the engine initialises), and queues a voiceschanged
\* event where it has one
InventoryChange(Invs) ==
    /\ \E vs \in Invs :
          /\ voices' = vs
          /\ voicesSignal' = IF onvoiceschanged # "undefined" THEN "queued"
                             ELSE IF vs # voices THEN "silent" ELSE voicesSignal
    /\ UNCHANGED <<phase, time, isSpeaking, hasBnVoice, timer, onvoiceschanged,
                   utts, calls, utterance, lastEvent>>

\* the voiceschanged event is dispatched: checkVoices runs if it is the handler.
\* setHasBnVoice acts on the mounted component only.
VoicesChanged ==
    /\ voicesSignal = "queued"
    /\ voicesSignal' = "none"
    /\ IF onvoiceschanged = "checkVoices"
       THEN /\ lastEvent' = "voiceschanged"
            /\ hasBnVoice' = IF phase = "mounted" THEN found(voices) ELSE hasBnVoice
       ELSE UNCHANGED <<lastEvent, hasBnVoice>>
    /\ UNCHANGED <<phase, time, isSpeaking, timer, onvoiceschanged, voices,
                   utts, calls, utterance>>

\* the button's onClick; Limit bounds the utterances of a run
speakTime(Limit) ==
    /\ phase = "mounted"
    /\ returnsEarly \/ Len(utts) < Limit
    /\ lastEvent' = "trigger"
    /\ IF returnsEarly
       THEN UNCHANGED <<utts, calls, utterance>>
       ELSE /\ utterance' = buildUtterance(time, voices)
            /\ utts' = EngineCalls(utts, engineCalls)
            /\ calls' = calls \o engineCalls
    /\ UNCHANGED <<phase, time, isSpeaking, hasBnVoice, timer, onvoiceschanged,
                   voices, voicesSignal>>

\* the synthesizer begins to speak the utterance it was handed
EngineStart(u) ==
    /\ utts[u].st = "pending"
    /\ utts' = [utts EXCEPT ![u].st = "speaking", ![u].inbox = Append(@, "start")]
    /\ UNCHANGED <<phase, time, isSpeaking, hasBnVoice, timer, onvoiceschanged,
                   voices, voicesSignal, calls, utterance, lastEvent>>

\* the synthesizer finishes the utterance it was handed. Some voices report no
\* start, so the end may be the utterance's first and only notification.
EngineEnd(u) ==
    /\ utts[u].st \in {"pending", "speaking"}
    /\ utts' = [utts EXCEPT ![u].st = "done", ![u].inbox = Append(@, "end")]
    /\ UNCHANGED <<phase, time, isSpeaking, hasBnVoice, timer, onvoiceschanged,
                   voices, voicesSignal, calls, utterance, lastEvent>>

\* the synthesizer fails on the utterance it was handed, begun or not
EngineError(u) ==
    /\ utts[u].st \in {"pending", "speaking"}
    /\ utts' = [utts EXCEPT ![u].st = "done", ![u].inbox = Append(@, "error")]
    /\ UNCHANGED <<phase, time, isSpeaking, hasBnVoice, timer, onvoiceschanged,
                   voices, voicesSignal, calls, utterance, lastEvent>>

\* the oldest unhandled notification of utterance u reaches its handler.
\* Notifications of one utterance keep their order; those of different
\* utterances are not ordered. setIsSpeaking acts on the mounted component only.
\* Once the handler of an end or error has run, the queue moves on.
Notify(u) ==
    /\ utts[u].inbox # <<>>
    /\ LET n == Head(utts[u].inbox)
           flag == CASE n = "start" -> onstart(isSpeaking)
                     [] n = "end" -> onend(isSpeaking)
                     [] OTHER -> onerror(isSpeaking)
           delivered == [utts EXCEPT ![u].inbox = Tail(@), ![u].got = Append(@, n)]
       IN /\ utts' = IF n = "start" THEN delivered ELSE HandOver(delivered, u)
          /\ isSpeaking' = IF phase = "mounted" THEN flag ELSE isSpeaking
          /\ lastEvent' = n
    /\ UNCHANGED <<phase, time, hasBnVoice, timer, onvoiceschanged, voices,
                   voicesSignal, calls, utterance>>

\* the screen is torn down: the effects' cleanups run
Unmount ==
    /\ phase = "mounted"
    /\ phase' = "unmounted"
    /\ timer' = clearInterval(timer)
    /\ onvoiceschanged' = voicesHandlerAfterTeardown(onvoiceschanged)
    /\ lastEvent' = "unmount"
    /\ UNCHANGED <<time, isSpeaking, hasBnVoice, voices, voicesSignal, utts, calls, utterance>>

-----------------------------------------------------------------------------
(* Specifications *)

\* The lifetime of the mounted screen: triggers, ticks, inventory changes and
\* the engine's notifications in every order.
InitLife == Init(FewInstants, FewInventories)

NextLife ==
    \/ Mount
    \/ Tick(FewInstants)
    \/ InventoryChange(FewInventories)
    \/ VoicesChanged
    \/ speakTime(MaxUtterances)
    \/ \E u \in DOMAIN utts : EngineStart(u)
    \/ \E u \in DOMAIN utts : EngineEnd(u)
    \/ \E u \in DOMAIN utts : EngineError(u)
    \/ \E u \in DOMAIN utts : Notify(u)

Spec == InitLife /\ [][NextLife]_vars

\* The same screen under every inventory over the three descriptors, the
\* clock held at one reading.
InitVoice == Init({Midnight}, Inventories(AllVoices))

NextVoice ==
    \/ Mount
    \/ InventoryChange(Inventories(AllVoices))
    \/ VoicesChanged
    \/ speakTime(MaxContentUtterances)
    \/ \E u \in DOMAIN utts : EngineStart(u)
    \/ \E u \in DOMAIN utts : EngineEnd(u)
    \/ \E u \in DOMAIN utts : EngineError(u)
    \/ \E u \in DOMAIN utts : Notify(u)

SpecVoice == InitVoice /\ [][NextVoice]_vars

\* The same screen with the clock going round the day in half-hour readings,
\* the inventory published again and again with the one Bengali voice.
InitPhrase == Init(AllInstants, {<<VoiceBnBD>>})

NextPhrase ==
    \/ Mount
    \/ Tick({HalfHourLater(time)})
    \/ InventoryChange({<<VoiceBnBD>>})
    \/ VoicesChanged
    \/ speakTime(MaxContentUtterances)
    \/ \E u \in DOMAIN utts : EngineStart(u)
    \/ \E u \in DOMAIN utts : EngineEnd(u)
    \/ \E u \in DOMAIN utts : EngineError(u)
    \/ \E u \in DOMAIN utts : Notify(u)

SpecPhrase == InitPhrase /\ [][NextPhrase]_vars

\* The screen from its first render to its teardown.
NextTeardown ==
    \/ NextLife
    \/ Unmount

SpecTeardown == InitLife /\ [][NextTeardown]_vars

-----------------------------------------------------------------------------
(* Vocabulary of the properties *)

\* the letters of the two tokens, in upper case
UpperOfTokenLetter(c) ==
    CASE c = "b" -> "B" [] c = "e" -> "E" [] c = "n" -> "N" [] c = "g" -> "G"
      [] c = "a" -> "A" [] c = "l" -> "L" [] c = "i" -> "I" [] OTHER -> c

\* token occurs in tag at position k, letter case ignored
OccursAt(tag, token, k) ==
    /\ k + Len(token) - 1 <= Len(tag)
    /\ \A j \in 1..Len(token) :
          tag[k + j - 1] = token[j] \/ tag[k + j - 1] = UpperOfTokenLetter(token[j])

\* the tag contains 'bn' or 'bengali', compared case-insensitively
TagMatches(tag) ==
    \E k \in 1..Len(tag) :
        OccursAt(tag, <<"b","n">>, k) \/ OccursAt(tag, <<"b","e","n","g","a","l","i">>, k)

MatchingPositions(vs) == {i \in DOMAIN vs : TagMatches(vs[i].lang)}

FirstMatch(vs) ==
    CHOOSE i \in MatchingPositions(vs) : \A j \in MatchingPositions(vs) : i <= j

\* a step in which a speak request is accepted
AcceptsRequest == Len(calls') > Len(calls)

\* a step in which the trigger is invoked (after some other handler)
TriggerInvoked == lastEvent # "trigger" /\ lastEvent' = "trigger"

\* a step in which utterance u's handler for notification n runs
Handles(u, n) ==
    /\ Len(utts'[u].got) = Len(utts[u].got) + 1
    /\ utts'[u].got[Len(utts'[u].got)] = n

\* utterance u has delivered its end or its error notification
Finished(u) ==
    \E k \in DOMAIN utts[u].got : utts[u].got[k] \in {"end", "error"}

IsGlyph(x) == \E d \in DOMAIN BnDigit : BnDigit[d] = x
GlyphValue(x) == (CHOOSE d \in DOMAIN BnDigit : BnDigit[d] = x) - 1

\* the hour number of a phrase: the run of digit glyphs after "ekhon somoy "
SpokenHour(text) ==
    IF IsGlyph(text[4]) THEN 10 * GlyphValue(text[3]) + GlyphValue(text[4])
    ELSE GlyphValue(text[3])

-----------------------------------------------------------------------------
(* The properties *)

\* C1: a speak trigger invoked while the flag is Speaking is a no-op: no cancel
\* and no speak request reaches the engine, no utterance is built, nothing is
\* queued, and the flag, the time and the voice-availability flag keep their values.
C1_TriggerWhileSpeakingIsNoOp ==
    [][(isSpeaking /\ TriggerInvoked)
          => UNCHANGED <<utts, calls, utterance, isSpeaking, time, hasBnVoice>>]_vars

\* a trigger was dropped while the engine speaks an utterance
C1_Witness ==
    /\ isSpeaking
    /\ lastEvent = "trigger"
    /\ \E u \in DOMAIN utts : utts[u].st = "speaking"

\* C2 as stated: no speak request is issued while an earlier utterance is in
\* flight, so at most one utterance is ever short of its end or error notification.
C2_AtMostOneInFlight ==
    Cardinality({u \in DOMAIN utts : ~Finished(u)}) <= 1

\* C2 as amended: a speak request is issued only while the flag is Idle, and
\* the engine then holds none of the utterances issued before it, whether or not
\* their end or error notifications have been delivered.
C2_SpeakOnlyWhenIdle ==
    [][AcceptsRequest
          => /\ ~isSpeaking
             /\ Len(utts') = Len(utts) + 1
             /\ \A u \in DOMAIN utts : utts'[u].st = "gone"]_vars

\* a second request was accepted before any notification of the first
C2_Witness ==
    /\ Len(utts) = 2
    /\ utts[1].got = <<>>
    /\ utts[2].st = "pending"
    /\ lastEvent = "trigger"

\* C3: the engine holds at most one of the announcer's utterances, pending or
\* being spoken.
C3_NoOverlapNoQueue ==
    Cardinality({u \in DOMAIN utts : utts[u].st \in {"queued", "pending", "speaking"}}) <= 1

\* a request was accepted while the first utterance was being spoken unnoticed
C3_Witness ==
    /\ Len(utts) = 2
    /\ utts[1].st = "gone"
    /\ utts[1].inbox = <<"start", "error">>
    /\ utts[2].st = "pending"

\* C4: every speak request comes right after a cancel made in the same
\* invocation of the trigger, and the cancels number as many as the speak requests.
C4_CancelBeforeSpeak ==
    /\ [](/\ \A i \in DOMAIN calls :
                calls[i] = "speak" => (i > 1 /\ calls[i - 1] = "cancel")
          /\ Cardinality({i \in DOMAIN calls : calls[i] = "cancel"})
                = Cardinality({i \in DOMAIN calls : calls[i] = "speak"})
          /\ Cardinality({i \in DOMAIN calls : calls[i] = "speak"}) = Len(utts))
    /\ [][calls' # calls => calls' = calls \o <<"cancel", "speak">>]_vars

\* a second request issued right after the flag reset to Idle, nothing pending
C4_Witness ==
    /\ calls = <<"cancel", "speak", "cancel", "speak">>
    /\ utts[1].got = <<"start", "end">>
    /\ utts[2] = NewUtterance
    /\ lastEvent = "trigger"
    /\ ~isSpeaking

\* C5: on the screen, handling an end or an error notification of any utterance
\* leaves the flag Idle, whatever it was, so that the trigger accepts the next
\* request; the handler issues no call on the engine and no utterance, before
\* or after teardown. After teardown the screen has no flag left to reset: the
\* handler changes nothing of the component. The flag becomes Speaking only by
\* handling a start.
C5_ResetOnEndOrError ==
    /\ [][(\E u \in DOMAIN utts : Handles(u, "end") \/ Handles(u, "error"))
             => /\ phase = "mounted" => (~isSpeaking' /\ ~returnsEarly')
                /\ phase = "unmounted" => UNCHANGED <<isSpeaking, time, hasBnVoice, timer>>
                /\ calls' = calls
                /\ utterance' = utterance
                /\ Len(utts') = Len(utts)]_vars
    /\ [][(~isSpeaking /\ isSpeaking')
             => \E u \in DOMAIN utts : Handles(u, "start")]_vars

\* on the screen, the end of the first utterance was handled while the flag was
\* Speaking, then the end of the second, which never reported a start, while
\* the flag was Idle
C5_Witness ==
    /\ phase = "mounted"
    /\ Len(utts) = 2
    /\ utts[1].got = <<"start", "end">>
    /\ utts[2].got = <<"end">>
    /\ lastEvent = "end"
    /\ ~isSpeaking

\* C6: an accepted request carries the first descriptor, in inventory order,
\* whose tag matches, with that descriptor's own tag; with no match it carries
\* no voice and the tag 'bn-BD'. The request is issued in both cases.
C6_VoiceBinding ==
    /\ [][AcceptsRequest
             => IF MatchingPositions(voices) # {}
                THEN /\ utterance'.voice = voices[FirstMatch(voices)]
                     /\ utterance'.lang = voices[FirstMatch(voices)].lang
                ELSE /\ utterance'.voice.handle = "null"
                     /\ utterance'.lang = <<"b","n","-","B","D">>]_vars
    /\ [][(TriggerInvoked /\ ~isSpeaking)
             => (Len(utts') = Len(utts) + 1 /\ utts'[Len(utts')] = NewUtterance)]_vars

\* the second descriptor is the first that matches, by the language's name
C6_Witness ==
    /\ voices = <<VoiceEnUS, VoiceBengali>>
    /\ utterance.voice = VoiceBengali
    /\ utterance.lang = <<"B","e","n","g","a","l","i">>
    /\ Len(utts) = 1
    /\ lastEvent = "trigger"

\* C7: once the check has run at initialization and after every signalled
\* change of the inventory, the voice-availability flag is true exactly when
\* some descriptor's tag matches.
C7_FlagMatchesInventory ==
    (phase = "mounted" /\ voicesSignal = "none")
        => (hasBnVoice <=> MatchingPositions(voices) # {})

\* the check ran on a signalled change that left only an English voice
C7_Witness ==
    /\ phase = "mounted"
    /\ lastEvent = "voiceschanged"
    /\ voicesSignal = "none"
    /\ voices = <<VoiceEnUS>>
    /\ ~hasBnVoice

\* C8: the hour number of the phrase of an accepted request is h % 12, or 12
\* when that is zero, h being the hour of the time used; it lies in 1..12.
C8_TwelveHourClock ==
    [][AcceptsRequest
          => /\ SpokenHour(utterance'.text)
                  = (IF time.hours % 12 = 0 THEN 12 ELSE time.hours % 12)
             /\ SpokenHour(utterance'.text) \in 1..12]_vars

\* a request accepted at midnight speaks the hour twelve
C8_Witness ==
    /\ time = [hours |-> 0, minutes |-> 0]
    /\ utterance.text = <<"ekhon somoy", " ", "bn1", "bn2", " ", "ta", " ">>
    /\ lastEvent = "trigger"

\* C9: after teardown the timer is cancelled, the voice-change subscription is
\* removed, and neither a tick nor the voice check runs.
C9_ReleasedOnTeardown ==
    phase = "unmounted"
        => /\ ~timer
           /\ onvoiceschanged # "checkVoices"
           /\ lastEvent \notin {"tick", "voiceschanged"}

\* C10: while an utterance has delivered its start and neither its end nor its
\* error, the flag is Speaking.
C10_FlagAgreesWithEngine ==
    \A u \in DOMAIN utts : utts[u].got = <<"start">> => isSpeaking

=============================================================================
